---- MODULE Spec2Model ----
(***************************************************************************)
(* Model of tab-server: the filename-pattern tokenizer and parser          *)
(* (src/src/tab.go) and the cache operations of the server (getTabs,       *)
(* deleteTab and the cache reset, src/unnamed/part_000).  Go strings are   *)
(* sequences of bytes (0..255); a token list is a sequence of such         *)
(* strings.  Indices are 1-based here, so the Go expression                *)
(* tokens[index+1] is tokens[index + 1] with index counted from 1, and     *)
(* str[0] is str[1].                                                       *)
(***************************************************************************)
EXTENDS Integers, Sequences, FiniteSets, TLC

(***************************************************************************)
(* Bounds of the model.                                                    *)
(***************************************************************************)
\* longest pattern, counted in pieces (a bracketed name or a single byte)
MaxPieces == 3
\* longest pattern of raw bytes given to the tokenizer
MaxPatBytes == 4
\* longest generic filename, in bytes
MaxFileLen == 2
\* longest A and T of the filenames A ++ " - " ++ T
MaxPartLen == 1
\* greatest value tab-counter is taken to
MaxCounter == 3
\* greatest number of requests the server is sent
MaxRequests == 3

(***************************************************************************)
(* Byte strings used by the program and by the inputs.                     *)
(***************************************************************************)
\* "Untitled"
Untitled == <<85, 110, 116, 105, 116, 108, 101, 100>>
\* "Unnamed"
Unnamed == <<85, 110, 110, 97, 109, 101, 100>>
\* "[title]"
TitleVar == <<91, 116, 105, 116, 108, 101, 93>>
\* "[artist]"
ArtistVar == <<91, 97, 114, 116, 105, 115, 116, 93>>
\* "[tag]"
TagVar == <<91, 116, 97, 103, 93>>
\* "[x]", a variable with an unrecognised name
OtherVar == <<91, 120, 93>>
\* "[unknown]"
UnknownVar == <<91, 117, 110, 107, 110, 111, 119, 110, 93>>
\* " - "
Separator == <<32, 45, 32>>
\* "-"
Dash == <<45>>

\* the concatenation of a sequence of strings
RECURSIVE Flatten(_)
Flatten(ss) ==
    IF ss = <<>> THEN <<>> ELSE Head(ss) \o Flatten(Tail(ss))

\* all sequences over S of length at most n
SeqsUpTo(S, n) ==
    UNION {[1..k -> S] : k \in 0..n}

(***************************************************************************)
(* UTF-8, as Go's `for _, character := range pattern` decodes it and       *)
(* string(character) encodes it.                                           *)
(***************************************************************************)
IsCont(b) ==
    b >= 128 /\ b <= 191

\* <<rune, width>> of the rune that starts at byte i of s; an invalid or
\* truncated encoding decodes to U+FFFD (65533) with width 1
DecodeRune(s, i) ==
    LET b0 == s[i]
        n == Len(s) - i + 1
    IN  IF b0 < 128 THEN <<b0, 1>>
        ELSE IF /\ b0 >= 194 /\ b0 <= 223
                /\ n >= 2 /\ IsCont(s[i + 1])
             THEN <<(b0 % 32) * 64 + (s[i + 1] % 64), 2>>
        ELSE IF /\ b0 >= 224 /\ b0 <= 239
                /\ n >= 3 /\ IsCont(s[i + 1]) /\ IsCont(s[i + 2])
                /\ (b0 = 224 => s[i + 1] >= 160)
                /\ (b0 = 237 => s[i + 1] <= 159)
             THEN <<(b0 % 16) * 4096 + (s[i + 1] % 64) * 64 + (s[i + 2] % 64), 3>>
        ELSE IF /\ b0 >= 240 /\ b0 <= 244
                /\ n >= 4 /\ IsCont(s[i + 1]) /\ IsCont(s[i + 2]) /\ IsCont(s[i + 3])
                /\ (b0 = 240 => s[i + 1] >= 144)
                /\ (b0 = 244 => s[i + 1] <= 143)
             THEN <<(b0 % 8) * 262144 + (s[i + 1] % 64) * 4096
                        + (s[i + 2] % 64) * 64 + (s[i + 3] % 64), 4>>
        ELSE <<65533, 1>>

\* string(r) for an integer r (a rune or a byte): the UTF-8 encoding of the
\* code point r
EncodeRune(r) ==
    IF r < 128 THEN <<r>>
    ELSE IF r < 2048 THEN <<192 + (r \div 64), 128 + (r % 64)>>
    ELSE IF r < 65536
         THEN <<224 + (r \div 4096), 128 + ((r \div 64) % 64), 128 + (r % 64)>>
    ELSE <<240 + (r \div 262144), 128 + ((r \div 4096) % 64),
           128 + ((r \div 64) % 64), 128 + (r % 64)>>

(***************************************************************************)
(* tokenizePattern                                                         *)
(***************************************************************************)
\* tokenizeChar with the closing bracket left out of the flushed token
tokenizeCharDropsClose(st, character) ==
    IF character = 91
    THEN [tokens |-> Append(st.tokens, st.buffer), buffer |-> <<91>>]
    ELSE IF character = 93
    THEN [tokens |-> Append(st.tokens, st.buffer), buffer |-> <<>>]
    ELSE [tokens |-> st.tokens, buffer |-> st.buffer \o EncodeRune(character)]

\* tokenizeChar with the opening bracket appended to the buffer in place
tokenizeCharNoFlush(st, character) ==
    IF character = 93
    THEN [tokens |-> Append(st.tokens, st.buffer \o EncodeRune(character)),
          buffer |-> <<>>]
    ELSE [tokens |-> st.tokens, buffer |-> st.buffer \o EncodeRune(character)]

\* the body of the loop for one character: '[' flushes the buffer (empty or
\* not) and opens a new one, ']' closes the buffer and flushes it
tokenizeChar(st, character) ==
    IF character = 91
    THEN [tokens |-> Append(st.tokens, st.buffer), buffer |-> <<91>>]
    ELSE IF character = 93
    THEN [tokens |-> Append(st.tokens, st.buffer \o EncodeRune(character)),
          buffer |-> <<>>]
    ELSE [tokens |-> st.tokens, buffer |-> st.buffer \o EncodeRune(character)]

\* after the loop: a non-empty buffer is the last token
tokenizeFlush(st) ==
    IF Len(st.buffer) > 0 THEN Append(st.tokens, st.buffer) ELSE st.tokens

RECURSIVE tokenizeFrom(_, _, _)
tokenizeFrom(pattern, i, st) ==
    IF i > Len(pattern)
    THEN tokenizeFlush(st)
    ELSE LET d == DecodeRune(pattern, i)
         IN  tokenizeFrom(pattern, i + d[2], tokenizeChar(st, d[1]))

tokenizePattern(pattern) ==
    tokenizeFrom(pattern, 1, [tokens |-> <<>>, buffer |-> <<>>])

(***************************************************************************)
(* parseFilename, one token per step                                       *)
(***************************************************************************)
isVariable(str) ==
    Len(str) > 1 /\ str[1] = 91 /\ str[Len(str)] = 93

\* strings.HasPrefix
HasPrefix(s, prefix) ==
    Len(s) >= Len(prefix) /\ SubSeq(s, 1, Len(prefix)) = prefix

\* the state of a call after its named results are initialised
parseStart(filename) ==
    [arg |-> filename, filename |-> filename, index |-> 1,
     title |-> Untitled, artist |-> Unnamed, tags |-> <<>>, ok |-> TRUE,
     buffers |-> <<>>, pc |-> "loop"]

\* a call that has not started
parseIdle(filename) ==
    [parseStart(filename) EXCEPT !.pc = "call"]

\* the next token exists and is not a variable
hasStop(tokens, index) ==
    index + 1 <= Len(tokens) /\ ~isVariable(tokens[index + 1])

\* tokens[index+1][0] is out of range when that token is the empty string
stopPanics(tokens, index) ==
    hasStop(tokens, index) /\ Len(tokens[index + 1]) = 0

\* the byte at which the variable at index stops; the zero value of a byte
\* when the next token sets none
stopByte(tokens, index) ==
    IF hasStop(tokens, index) THEN tokens[index + 1][1] ELSE 0

\* <<buffer, filename>> after the scanning loop of a variable;
\* buffer += string(filename[0]) appends the UTF-8 encoding of the code point
\* whose number is the byte
RECURSIVE scanVariable(_, _, _)
scanVariable(filename, stop, buffer) ==
    IF Len(filename) > 0 /\ filename[1] # stop
    THEN scanVariable(Tail(filename), stop, buffer \o EncodeRune(filename[1]))
    ELSE <<buffer, filename>>

\* assignVariable with the tags overwritten instead of appended to
assignVariableOverwritesTags(st, token, buffer) ==
    IF token = TitleVar THEN [st EXCEPT !.title = buffer]
    ELSE IF token = ArtistVar THEN [st EXCEPT !.artist = buffer]
    ELSE IF token = TagVar THEN [st EXCEPT !.tags = <<buffer>>]
    ELSE st

\* assignVariable with a default branch that takes any other name as the title
assignVariableAnyName(st, token, buffer) ==
    IF token = ArtistVar THEN [st EXCEPT !.artist = buffer]
    ELSE IF token = TagVar THEN [st EXCEPT !.tags = Append(st.tags, buffer)]
    ELSE [st EXCEPT !.title = buffer]

\* assignVariable with an empty capture leaving the placeholder in place
assignVariableSkipsEmpty(st, token, buffer) ==
    IF buffer = <<>> THEN st
    ELSE IF token = TitleVar THEN [st EXCEPT !.title = buffer]
    ELSE IF token = ArtistVar THEN [st EXCEPT !.artist = buffer]
    ELSE IF token = TagVar THEN [st EXCEPT !.tags = Append(st.tags, buffer)]
    ELSE st

\* the switch on the variable's name
assignVariable(st, token, buffer) ==
    IF token = TitleVar THEN [st EXCEPT !.title = buffer]
    ELSE IF token = ArtistVar THEN [st EXCEPT !.artist = buffer]
    ELSE IF token = TagVar THEN [st EXCEPT !.tags = Append(st.tags, buffer)]
    ELSE st

\* one iteration of the loop on a variable token
parseVariable(st, tokens) ==
    IF stopPanics(tokens, st.index)
    THEN [st EXCEPT !.pc = "panic"]
    ELSE LET scanned == scanVariable(st.filename, stopByte(tokens, st.index), <<>>)
             assigned == assignVariable(st, tokens[st.index], scanned[1])
         IN  [assigned EXCEPT !.filename = scanned[2],
                              !.buffers = Append(st.buffers, scanned[1]),
                              !.index = st.index + 1]

\* parseLiteral with the captures rolled back when the literal does not match
parseLiteralRollsBack(st, tokens) ==
    LET token == tokens[st.index]
    IN  IF HasPrefix(st.filename, token)
        THEN [st EXCEPT !.filename = SubSeq(st.filename, Len(token) + 1, Len(st.filename)),
                        !.buffers = Append(st.buffers, <<>>),
                        !.index = st.index + 1]
        ELSE [st EXCEPT !.ok = FALSE, !.pc = "done",
                        !.title = Untitled, !.artist = Unnamed, !.tags = <<>>]

\* parseLiteral looking for the literal further on in the filename, as
\* strings.Index would, when it is not a prefix
parseLiteralSearches(st, tokens) ==
    LET token == tokens[st.index]
        at == {k \in 0..(Len(st.filename) - Len(token)) :
                    SubSeq(st.filename, k + 1, k + Len(token)) = token}
    IN  IF at # {}
        THEN LET k == CHOOSE m \in at : \A j \in at : m <= j
             IN  [st EXCEPT !.filename = SubSeq(st.filename, k + Len(token) + 1,
                                                Len(st.filename)),
                            !.buffers = Append(st.buffers, <<>>),
                            !.index = st.index + 1]
        ELSE [st EXCEPT !.ok = FALSE, !.pc = "done"]

\* one iteration of the loop on a literal token
parseLiteral(st, tokens) ==
    LET token == tokens[st.index]
    IN  IF HasPrefix(st.filename, token)
        THEN [st EXCEPT !.filename = SubSeq(st.filename, Len(token) + 1, Len(st.filename)),
                        !.buffers = Append(st.buffers, <<>>),
                        !.index = st.index + 1]
        ELSE [st EXCEPT !.ok = FALSE, !.pc = "done"]

\* the loop over the tokens, from the state st to the end of the call
RECURSIVE parseLoop(_, _)
parseLoop(st, tokens) ==
    IF st.pc # "loop" THEN st
    ELSE IF st.index > Len(tokens) THEN [st EXCEPT !.pc = "done"]
    ELSE IF isVariable(tokens[st.index])
         THEN parseLoop(parseVariable(st, tokens), tokens)
         ELSE parseLoop(parseLiteral(st, tokens), tokens)

\* parseFilename as one call: the state in which it ends, with pc = "done"
\* when it returns and pc = "panic" when it fails at run time
parseFilename(filename, tokens) ==
    parseLoop(parseStart(filename), tokens)

(***************************************************************************)
(* Inputs                                                                  *)
(***************************************************************************)
\* "[artist] - [title]"
ArtistTitlePattern == ArtistVar \o Separator \o TitleVar
\* "[tag]-[tag]-[tag]"
ThreeTagsPattern == TagVar \o Dash \o TagVar \o Dash \o TagVar
\* "[artist][title]"
AdjacentPattern == ArtistVar \o TitleVar
\* "Artist - Song"
ArtistSong == <<65, 114, 116, 105, 115, 116, 32, 45, 32, 83, 111, 110, 103>>
\* "NoSeparator"
NoSeparator == <<78, 111, 83, 101, 112, 97, 114, 97, 116, 111, 114>>
\* "a-b-c"
ABC == <<97, 45, 98, 45, 99>>
\* "ab"
AB == <<97, 98>>
\* "X"
X == <<88>>
\* "Foo Bar - Song"
FooBarSong == <<70, 111, 111, 32, 66, 97, 114, 32, 45, 32, 83, 111, 110, 103>>
\* "e-acute - a": the two bytes 0xC3 0xA9, then " - a"
Accented == <<195, 169, 32, 45, 32, 97>>

\* the pieces generic patterns are built from
Pieces == {TitleVar, ArtistVar, TagVar, OtherVar, Dash}
PiecePatterns == {Flatten(ps) : ps \in SeqsUpTo(Pieces, MaxPieces)}

\* raw patterns: '[', ']', 'a', and 0xC3 0xA9, which is e-acute when the two
\* bytes are in this order and invalid UTF-8 otherwise
PatBytes == {91, 93, 97, 195, 169}
BytePatterns == SeqsUpTo(PatBytes, MaxPatBytes)

\* filename bytes: NUL, '-', 'a' and the non-ASCII byte 0xC3
FileBytes == {0, 45, 97, 195}
GenFilenames == SeqsUpTo(FileBytes, MaxFileLen)

\* filenames A ++ " - " ++ T
PartBytes == {0, 32, 97, 195}
Parts == SeqsUpTo(PartBytes, MaxPartLen)
SepFilenames == {A \o Separator \o T : A \in Parts, T \in Parts}

NamedInputs ==
    {<<ArtistTitlePattern, ArtistSong>>, <<ArtistTitlePattern, NoSeparator>>,
     <<ThreeTagsPattern, ABC>>, <<AdjacentPattern, AB>>, <<UnknownVar, X>>,
     <<TitleVar, X>>, <<ArtistTitlePattern, Accented>>,
     <<ArtistTitlePattern, FooBarSong>>}

\* the pairs <<pattern, filename>> of the model
Inputs ==
    (PiecePatterns \X GenFilenames)
        \cup ({ArtistTitlePattern} \X SepFilenames)
        \cup (BytePatterns \X {<<>>})
        \cup NamedInputs

(***************************************************************************)
(* The tab directory and the cache (src/unnamed/part_000, the api.go of    *)
(* the server, and cacheNewTab and fetchTab of src/src/tab.go).  The       *)
(* database is a record: counter is the key tab-counter, tabs the set      *)
(* 'tabs', filenames the hash 'filenames', hash[id] the hash tab:<id>,     *)
(* tags[id] the set tab:<id>:tags.  A key that does not exist is outside   *)
(* the domain.  IDs are numbers; their decimal text is never parsed back.  *)
(***************************************************************************)
\* "[title]-[tag]"
TitleTagPattern == TitleVar \o Dash \o TagVar
\* the patterns the server is run with
ServerPatterns == {TitleTagPattern}

\* "a.t": does not match "[title]-[tag]"
FileA == <<97, 46, 116>>
\* "b-c.t"
FileBC == <<98, 45, 99, 46, 116>>
\* "c-d"
FileCD == <<99, 45, 100>>
\* the files the tab directory can hold
DirFiles == {FileA, FileBC, FileCD}

\* strings.HasSuffix and strings.TrimSuffix
HasSuffix(s, suffix) ==
    /\ Len(s) >= Len(suffix)
    /\ SubSeq(s, Len(s) - Len(suffix) + 1, Len(s)) = suffix

TrimSuffix(s, suffix) ==
    IF HasSuffix(s, suffix) THEN SubSeq(s, 1, Len(s) - Len(suffix)) ELSE s

\* filepath.Ext: from the last '.' of the last path element, "" without one
RECURSIVE extFrom(_, _)
extFrom(path, i) ==
    IF i < 1 \/ path[i] = 47 THEN <<>>
    ELSE IF path[i] = 46 THEN SubSeq(path, i, Len(path))
    ELSE extFrom(path, i - 1)

Ext(path) ==
    extFrom(path, Len(path))

\* a < b in the byte order of strings
RECURSIVE ByteLess(_, _)
ByteLess(a, b) ==
    IF Len(b) = 0 THEN FALSE
    ELSE IF Len(a) = 0 THEN TRUE
    ELSE IF a[1] # b[1] THEN a[1] < b[1]
    ELSE ByteLess(Tail(a), Tail(b))

\* ioutil.ReadDir returns the entries sorted by filename
RECURSIVE SortedNames(_)
SortedNames(S) ==
    IF S = {} THEN <<>>
    ELSE LET least == CHOOSE f \in S : \A g \in S \ {f} : ByteLess(f, g)
         IN  <<least>> \o SortedNames(S \ {least})

\* the names of the directory that do not start with '.'
listFilenames(files) ==
    SelectSeq(SortedNames(files), LAMBDA f : ~HasPrefix(f, <<46>>))

\* SMEMBERS of a set of integers: Redis keeps it as an intset, in
\* ascending order
RECURSIVE AscendingIDs(_)
AscendingIDs(S) ==
    IF S = {} THEN <<>>
    ELSE LET least == CHOOSE n \in S : \A m \in S : n <= m
         IN  <<least>> \o AscendingIDs(S \ {least})

\* the filenames that are not in the cached list
notCached(filenames, cached) ==
    SelectSeq(filenames,
              LAMBDA f : \A j \in 1..Len(cached) : cached[j] # f)

\* a map with the value v at the key k
Put(m, k, v) ==
    [x \in DOMAIN m \cup {k} |-> IF x = k THEN v ELSE m[x]]

\* a map without the keys K
Drop(m, K) ==
    [x \in DOMAIN m \ K |-> m[x]]

\* the map without entries
NoEntries ==
    [x \in {} |-> 0]

\* the orders in which SMEMBERS can return the members of a set of strings
Orderings(S) ==
    {q \in [1..Cardinality(S) -> S] : \A i, j \in DOMAIN q : i # j => q[i] # q[j]}

\* the set of the elements of a sequence
Elements(q) ==
    {q[i] : i \in DOMAIN q}

\* s.Settings.CharactersToRemove: "_"
CharactersToRemove == <<95>>
\* s.Settings.NonCapitalWords: "of"
NonCapitalWords == {<<111, 102>>}

\* removeCharacters on one string: every character of the cutset becomes ' '
removeCharacters(str, chars) ==
    [i \in 1..Len(str) |-> IF str[i] \in Elements(chars) THEN 32 ELSE str[i]]

\* unicode.IsSpace on an ASCII byte
IsSpace(b) ==
    b \in {9, 10, 11, 12, 13, 32}

\* strings.Fields: the maximal runs of bytes that are not white space
RECURSIVE Fields(_)
Fields(str) ==
    IF Len(str) = 0 THEN <<>>
    ELSE IF IsSpace(str[1]) THEN Fields(Tail(str))
    ELSE LET n == CHOOSE k \in 1..Len(str) :
                    /\ \A j \in 1..k : ~IsSpace(str[j])
                    /\ k = Len(str) \/ IsSpace(str[k + 1])
         IN  <<SubSeq(str, 1, n)>> \o Fields(SubSeq(str, n + 1, Len(str)))

ToUpper(b) ==
    IF b \in 97..122 THEN b - 32 ELSE b

ToLower(str) ==
    [i \in 1..Len(str) |-> IF str[i] \in 65..90 THEN str[i] + 32 ELSE str[i]]

\* the separators of strings.Title among the ASCII bytes: everything but
\* letters, digits and '_'
isSeparator(b) ==
    b < 128 /\ b \notin (48..57) \cup (65..90) \cup (97..122) \cup {95}

\* strings.Title: the letters that start a word are upper-cased
Title(word) ==
    [i \in 1..Len(word) |->
        IF i = 1 \/ isSeparator(word[i - 1]) THEN ToUpper(word[i]) ELSE word[i]]

\* the output of capitaliseString before its first byte is cut off; the
\* blacklist is compared with the whole string, not with the word
RECURSIVE capitaliseWords(_, _, _)
capitaliseWords(words, index, blacklisted) ==
    IF index > Len(words) THEN <<>>
    ELSE <<32>> \o (IF index = 1 \/ ~blacklisted
                    THEN Title(words[index]) ELSE words[index])
                \o capitaliseWords(words, index + 1, blacklisted)

\* output[1:] is out of range when the string has no word
capitalisePanics(str) ==
    Fields(str) = <<>>

capitaliseString(str, blacklist) ==
    Tail(capitaliseWords(Fields(str), 1,
                         \E b \in blacklist : ToLower(str) = ToLower(b)))

\* applyTransformations fails at run time on a title or an artist without
\* a word
transformPanics(tab) ==
    \/ capitalisePanics(removeCharacters(tab.title, CharactersToRemove))
    \/ capitalisePanics(removeCharacters(tab.artist, CharactersToRemove))

applyTransformations(tab) ==
    [tab EXCEPT
        !.title = capitaliseString(removeCharacters(tab.title, CharactersToRemove),
                                   NonCapitalWords),
        !.artist = capitaliseString(removeCharacters(tab.artist, CharactersToRemove),
                                    NonCapitalWords)]

\* sha512 of a password, in hexadecimal: a value that names the password
Hash(password) ==
    <<"sha512", password>>

\* the password of the administrator, and the value of the form field of a
\* request that carries none
AdminPassword == "admin"
Passwords == {AdminPassword, ""}

\* the values of tab-directory
TabDirectories == {"tabs", "music"}

\* the database of an installation whose cache is empty
emptyCache ==
    [counter |-> 0, tabs |-> {}, filenames |-> NoEntries, hash |-> NoEntries,
     tags |-> NoEntries, passwordHash |-> Hash(AdminPassword),
     tabDirectory |-> "tabs", filenamePattern |-> TitleTagPattern,
     charactersToRemove |-> CharactersToRemove,
     nonCapitalWords |-> NonCapitalWords]

\* LoadSettings(db), less FilenamePattern: the Settings read from the
\* database d, with SMEMBERS non-capital-words answering nonCap
LoadSettings(d, nonCap) ==
    [PasswordHash |-> d.passwordHash, TabDirectory |-> d.tabDirectory,
     NonCapitalWords |-> nonCap, CharactersToRemove |-> d.charactersToRemove]

\* the values of the form of a request that carries none
noForm ==
    [tabDirectory |-> "", filenamePattern |-> <<>>, nonCapitalWords |-> <<>>,
     charactersToRemove |-> <<>>]

\* the Tab with empty fields; the ID "" is 0
noTab ==
    [ID |-> 0, title |-> <<>>, artist |-> <<>>, content |-> <<>>,
     filename |-> <<>>, tags |-> <<>>]

\* a request slot without a request
idleRequest ==
    [op |-> "none", pc |-> "idle", filenames |-> <<>>, tabIDs |-> <<>>,
     cached |-> <<>>, toProcess |-> <<>>, i |-> 0, id |-> 0, tab |-> noTab,
     tabs |-> <<>>, tokens |-> <<>>, filename |-> <<>>, password |-> "",
     method |-> "", new |-> "", actualHash |-> <<>>, status |-> 0,
     form |-> noForm, nonCapitalWords |-> <<>>]

(***************************************************************************)
(* State                                                                   *)
(***************************************************************************)
VARIABLES
    pattern,    \* s.Settings.FilenamePattern
    settings,   \* s.Settings, its other fields
    stage,      \* "tokenize" before tokenizePattern has run, "parse" after
    tokens,     \* the token list, shared by all calls of parseFilename
    call,       \* the calls of parseFilename: arguments, locals and results
    db,         \* the Redis database of the server
    disk,       \* the names of the files in the tab directory
    req,        \* the requests being served: operation, position and locals
    issued,     \* the IDs INCR has returned since tab-counter was last set
    served      \* the number of requests the server has been sent

vars == <<pattern, settings, stage, tokens, call, db, disk, req, issued, served>>

parserVars == <<stage, tokens, call>>

serverVars == <<settings, db, disk, req, issued, served>>

Callers == {"c1", "c2"}

Requests == {"r1", "r2"}

\* no request is being served, the cache and the directory are empty
ServerAtRest ==
    /\ db = [emptyCache EXCEPT !.filenamePattern = pattern]
    /\ settings \in {LoadSettings(db, nonCap) :
                        nonCap \in Orderings(db.nonCapitalWords)}
    /\ disk = {}
    /\ req = [r \in Requests |-> idleRequest]
    /\ issued = {}
    /\ served = 0

Init ==
    \E in \in Inputs :
        /\ pattern = in[1]
        /\ stage = "tokenize"
        /\ tokens = <<>>
        /\ call = [c \in Callers |-> parseIdle(IF c = "c1" THEN in[2] ELSE <<>>)]
        /\ ServerAtRest

\* tokens := tokenizePattern(s.Settings.FilenamePattern)
Tokenize ==
    /\ stage = "tokenize"
    /\ tokens' = tokenizePattern(pattern)
    /\ stage' = "parse"
    /\ UNCHANGED <<pattern, call>>
    /\ UNCHANGED serverVars

\* parseFilename is entered: the named results get their placeholders
ParseCall(c) ==
    /\ stage = "parse"
    /\ call[c].pc = "call"
    /\ call' = [call EXCEPT ![c] = parseStart(call[c].arg)]
    /\ UNCHANGED <<pattern, stage, tokens>>
    /\ UNCHANGED serverVars

\* ParseVariable with the brackets of the token stripped in the shared list
ParseVariableStripsToken(c) ==
    /\ call[c].pc = "loop"
    /\ call[c].index <= Len(tokens)
    /\ isVariable(tokens[call[c].index])
    /\ call' = [call EXCEPT ![c] = parseVariable(call[c], tokens)]
    /\ tokens' = [tokens EXCEPT ![call[c].index] = SubSeq(@, 2, Len(@) - 1)]
    /\ UNCHANGED <<pattern, stage>>
    /\ UNCHANGED serverVars

ParseVariable(c) ==
    /\ call[c].pc = "loop"
    /\ call[c].index <= Len(tokens)
    /\ isVariable(tokens[call[c].index])
    /\ call' = [call EXCEPT ![c] = parseVariable(call[c], tokens)]
    /\ UNCHANGED <<pattern, stage, tokens>>
    /\ UNCHANGED serverVars

ParseLiteral(c) ==
    /\ call[c].pc = "loop"
    /\ call[c].index <= Len(tokens)
    /\ ~isVariable(tokens[call[c].index])
    /\ call' = [call EXCEPT ![c] = parseLiteral(call[c], tokens)]
    /\ UNCHANGED <<pattern, stage, tokens>>
    /\ UNCHANGED serverVars

\* the loop is over: return with ok = true
ParseReturn(c) ==
    /\ call[c].pc = "loop"
    /\ call[c].index > Len(tokens)
    /\ call' = [call EXCEPT ![c].pc = "done"]
    /\ UNCHANGED <<pattern, stage, tokens>>
    /\ UNCHANGED serverVars

Parse(c) ==
    \/ ParseCall(c)
    \/ ParseVariable(c)
    \/ ParseLiteral(c)
    \/ ParseReturn(c)

Next ==
    \/ Tokenize
    \/ Parse("c1")

Spec == Init /\ [][Next]_vars

(***************************************************************************)
(* Two calls of parseFilename that share one token list and interleave.    *)
(***************************************************************************)
ConcurrentPatterns ==
    {ArtistTitlePattern, ThreeTagsPattern, AdjacentPattern, UnknownVar,
     TitleVar \o Dash \o TagVar}

ConcurrentFilenames ==
    {ArtistSong, NoSeparator, ABC, AB, X, <<97, 0, 45, 195>>}

InitConcurrent ==
    /\ pattern \in ConcurrentPatterns
    /\ stage = "tokenize"
    /\ tokens = <<>>
    /\ call \in {[c \in Callers |-> parseIdle(a[c])] :
                    a \in [Callers -> ConcurrentFilenames]}
    /\ ServerAtRest

NextConcurrent ==
    \/ Tokenize
    \/ \E c \in Callers : Parse(c)

SpecConcurrent == InitConcurrent /\ [][NextConcurrent]_vars

(***************************************************************************)
(* Properties of tokenizePattern                                           *)
(***************************************************************************)
\* the brackets of p are balanced and not nested
RECURSIVE balancedFrom(_, _, _)
balancedFrom(p, i, open) ==
    IF i > Len(p) THEN ~open
    ELSE IF p[i] = 91 THEN ~open /\ balancedFrom(p, i + 1, TRUE)
    ELSE IF p[i] = 93 THEN open /\ balancedFrom(p, i + 1, FALSE)
    ELSE balancedFrom(p, i + 1, open)

BalancedFlat(p) ==
    balancedFrom(p, 1, FALSE)

\* p is valid UTF-8: no byte of it decodes to the replacement rune
RECURSIVE validFrom(_, _)
validFrom(p, i) ==
    \/ i > Len(p)
    \/ LET d == DecodeRune(p, i)
       IN  (d[1] # 65533 \/ d[2] = 3) /\ validFrom(p, i + d[2])

ValidUTF8(p) ==
    validFrom(p, 1)

\* p is one bracketed name and nothing else
SoleVariable(p) ==
    /\ isVariable(p)
    /\ \A i \in 2..(Len(p) - 1) : p[i] # 91 /\ p[i] # 93

\* C1, as stated: for every pattern with balanced, non-nested brackets the
\* concatenation of the tokens of tokenizePattern is the pattern.
C1_RoundTripAnyBytes ==
    (stage = "parse" /\ BalancedFlat(pattern)) => Flatten(tokens) = pattern

\* C1, amended: for every pattern that is valid UTF-8 and has balanced,
\* non-nested brackets the concatenation of the tokens of tokenizePattern is
\* the pattern: no character is dropped, duplicated or reordered.
C1_RoundTripValidUTF8 ==
    (stage = "parse" /\ BalancedFlat(pattern) /\ ValidUTF8(pattern))
        => Flatten(tokens) = pattern

\* a tokenized valid pattern with a bracket pair and a two-byte character
C1_Witness ==
    /\ stage = "parse"
    /\ BalancedFlat(pattern) /\ ValidUTF8(pattern)
    /\ \E i \in 1..Len(pattern) : pattern[i] = 91
    /\ \E i \in 1..Len(pattern) : pattern[i] = 195
    /\ Len(tokens) >= 2
    /\ Flatten(tokens) = pattern

\* C2: tokenizePattern("[title]") is the one token "[title]", and every
\* pattern that is a single bracketed name yields exactly one token.
C2_SingleVariableToken ==
    (stage = "parse" /\ SoleVariable(pattern)) => tokens = <<pattern>>

(***************************************************************************)
(* The server: getTabs, deleteTab and the cache reset, one database        *)
(* command or file operation per step.  A request that ended keeps its     *)
(* result until Respond frees its slot.                                    *)
(***************************************************************************)
\* req with the request of r replaced
Becomes(r, rq) ==
    req' = [req EXCEPT ![r] = rq]

\* the request rq has ended: by returning ("done"), by returning an error
\* ("error", the result is nil) or by a run-time failure ("panic"); what is
\* kept is what the caller gave and gets, the locals are gone
ended(rq, how) ==
    [idleRequest EXCEPT
        !.op = rq.op, !.pc = how,
        !.id = IF rq.op = "deleteTab" THEN rq.id ELSE 0,
        !.filenames = rq.filenames,
        !.filename = rq.filename,
        !.tabs = IF how = "done" THEN rq.tabs ELSE <<>>,
        !.password = rq.password]

\* tokens := tokenizePattern(s.Settings.FilenamePattern), before the loop
\* over the filenames to process
enterParse(rq) ==
    [rq EXCEPT !.tokens = tokenizePattern(pattern), !.i = 1, !.pc = "parse"]

\* the end of filterFilenames and the entry of the loop over the cached
\* filenames
afterFilter(rq) ==
    LET filtered == [rq EXCEPT !.toProcess = notCached(rq.filenames, rq.cached),
                               !.i = 1, !.pc = "hgetid"]
    IN  IF Len(rq.cached) > 0 THEN filtered ELSE enterParse(filtered)

\* the next iteration of the loop over the cached filenames
nextCached(rq) ==
    IF rq.i < Len(rq.cached)
    THEN [rq EXCEPT !.i = rq.i + 1, !.pc = "hgetid"]
    ELSE enterParse(rq)

\* getTabs is called; tabFilenames lists the directory
StartGetTabs(r) ==
    /\ req[r].op = "none"
    /\ served < MaxRequests
    /\ served' = served + 1
    /\ Becomes(r, [idleRequest EXCEPT !.op = "getTabs", !.pc = "smembers",
                                     !.filenames = listFilenames(disk)])
    /\ UNCHANGED <<pattern, settings, parserVars, db, disk, issued>>

\* filterFilenames: SMEMBERS tabs
FilterSMembers(r) ==
    /\ req[r].pc = "smembers"
    /\ LET listed == [req[r] EXCEPT !.tabIDs = AscendingIDs(db.tabs),
                                    !.i = 1, !.pc = "hget"]
       IN  Becomes(r, IF db.tabs = {} THEN afterFilter(listed) ELSE listed)
    /\ UNCHANGED <<pattern, settings, parserVars, db, disk, issued, served>>

\* filterFilenames: HGET tab:<id> filename, an error when there is no such
\* hash
FilterHGet(r) ==
    /\ req[r].pc = "hget"
    /\ LET rq == req[r]
           id == rq.tabIDs[rq.i]
       IN  IF id \in DOMAIN db.hash
           THEN LET got == [rq EXCEPT !.cached = Append(rq.cached,
                                                        db.hash[id].filename)]
                IN  Becomes(r, IF rq.i < Len(rq.tabIDs)
                               THEN [got EXCEPT !.i = rq.i + 1]
                               ELSE afterFilter(got))
           ELSE Becomes(r, ended(rq, "error"))
    /\ UNCHANGED <<pattern, settings, parserVars, db, disk, issued, served>>

\* getTabs, cached filename: HGET filenames <filename>
CachedHGet(r) ==
    /\ req[r].pc = "hgetid"
    /\ LET rq == req[r]
           filename == rq.cached[rq.i]
       IN  IF filename \in DOMAIN db.filenames
           THEN Becomes(r, [rq EXCEPT !.id = db.filenames[filename],
                                      !.pc = "sismember"])
           ELSE Becomes(r, ended(rq, "error"))
    /\ UNCHANGED <<pattern, settings, parserVars, db, disk, issued, served>>

\* fetchTab: SISMEMBER tabs <id>; a tab that is not a member is left out
FetchSIsMember(r) ==
    /\ req[r].pc = "sismember"
    /\ Becomes(r, IF req[r].id \in db.tabs
                   THEN [req[r] EXCEPT !.pc = "hgetall"]
                   ELSE nextCached(req[r]))
    /\ UNCHANGED <<pattern, settings, parserVars, db, disk, issued, served>>

\* fetchTab: HGETALL tab:<id>; a hash that does not exist reads as empty
\* fields (the ID "" is 0 here)
FetchHGetAll(r) ==
    /\ req[r].pc = "hgetall"
    /\ LET id == req[r].id
           data == IF id \in DOMAIN db.hash THEN db.hash[id]
                   ELSE [id |-> 0, title |-> <<>>, artist |-> <<>>,
                         content |-> <<>>, filename |-> <<>>]
       IN  Becomes(r, [req[r] EXCEPT
                !.tab = [ID |-> data.id, title |-> data.title,
                         artist |-> data.artist, content |-> data.content,
                         filename |-> data.filename, tags |-> <<>>],
                !.pc = "smemberstags"])
    /\ UNCHANGED <<pattern, settings, parserVars, db, disk, issued, served>>

\* fetchTab: SMEMBERS tab:<id>:tags, in any order; the tab joins the result
FetchSMembers(r) ==
    /\ req[r].pc = "smemberstags"
    /\ LET id == req[r].id
           members == IF id \in DOMAIN db.tags THEN db.tags[id] ELSE {}
       IN  \E tags \in Orderings(members) :
                LET tab == [req[r].tab EXCEPT !.tags = tags]
                IN  Becomes(r, nextCached([req[r] EXCEPT
                                    !.tabs = Append(req[r].tabs, tab)]))
    /\ UNCHANGED <<pattern, settings, parserVars, db, disk, issued, served>>

\* what ioutil.ReadFile returns for a file of the directory
ContentOf(filename) ==
    <<"content of", filename>>

\* the next iteration of the loop over the filenames to process
nextToProcess(rq) ==
    [rq EXCEPT !.i = rq.i + 1, !.pc = "parse"]

\* ParseNewFile with a name that does not match ending getTabs with an error
ParseNewFileFatal(r) ==
    /\ req[r].pc = "parse"
    /\ req[r].i <= Len(req[r].toProcess)
    /\ LET rq == req[r]
           filename == rq.toProcess[rq.i]
           parsed == parseFilename(TrimSuffix(filename, Ext(filename)), rq.tokens)
       IN  IF parsed.pc = "panic"
           THEN Becomes(r, ended(rq, "panic"))
           ELSE IF ~parsed.ok \/ filename \notin disk
           THEN Becomes(r, ended(rq, "error"))
           ELSE Becomes(r, [rq EXCEPT
                    !.tab = [ID |-> 0, title |-> parsed.title,
                             artist |-> parsed.artist,
                             content |-> ContentOf(filename),
                             filename |-> filename, tags |-> parsed.tags],
                    !.pc = "incr"])
    /\ UNCHANGED <<pattern, settings, parserVars, db, disk, issued, served>>

\* getTabs, filename to process: parseFilename on the name without its
\* extension; a name that does not match is skipped; ReadFile on one that
\* does, an error when the file is gone
ParseNewFile(r) ==
    /\ req[r].pc = "parse"
    /\ req[r].i <= Len(req[r].toProcess)
    /\ LET rq == req[r]
           filename == rq.toProcess[rq.i]
           parsed == parseFilename(TrimSuffix(filename, Ext(filename)), rq.tokens)
       IN  IF parsed.pc = "panic"
           THEN Becomes(r, ended(rq, "panic"))
           ELSE IF ~parsed.ok
           THEN Becomes(r, nextToProcess(rq))
           ELSE IF filename \notin disk
           THEN Becomes(r, ended(rq, "error"))
           ELSE Becomes(r, [rq EXCEPT
                    !.tab = [ID |-> 0, title |-> parsed.title,
                             artist |-> parsed.artist,
                             content |-> ContentOf(filename),
                             filename |-> filename, tags |-> parsed.tags],
                    !.pc = "incr"])
    /\ UNCHANGED <<pattern, settings, parserVars, db, disk, issued, served>>

\* CacheIncr handing out the least ID that no cached tab has
CacheIncrReusesFreed(r) ==
    /\ req[r].pc = "incr"
    /\ db.counter < MaxCounter
    /\ LET id == CHOOSE n \in 1..(MaxCounter + 1) :
                    n \notin db.tabs /\ \A m \in 1..(n - 1) : m \in db.tabs
       IN  /\ db' = [db EXCEPT !.counter = IF id > db.counter THEN id
                                           ELSE db.counter]
           /\ Becomes(r, [req[r] EXCEPT !.id = id, !.tab.ID = id, !.pc = "sadd"])
           /\ issued' = issued \cup {id}
    /\ UNCHANGED <<pattern, settings, parserVars, disk, served>>

\* cacheNewTab: INCR tab-counter, the new value is the ID of the tab
CacheIncr(r) ==
    /\ req[r].pc = "incr"
    /\ db.counter < MaxCounter
    /\ LET id == db.counter + 1
       IN  /\ db' = [db EXCEPT !.counter = id]
           /\ Becomes(r, [req[r] EXCEPT !.id = id, !.tab.ID = id, !.pc = "sadd"])
           /\ issued' = issued \cup {id}
    /\ UNCHANGED <<pattern, settings, parserVars, disk, served>>

\* cacheNewTab: SADD tabs <id>
CacheSAdd(r) ==
    /\ req[r].pc = "sadd"
    /\ db' = [db EXCEPT !.tabs = db.tabs \cup {req[r].id}]
    /\ Becomes(r, [req[r] EXCEPT !.pc = "hset"])
    /\ UNCHANGED <<pattern, settings, parserVars, disk, issued, served>>

\* cacheNewTab: HSET filenames <filename> <id>
CacheHSet(r) ==
    /\ req[r].pc = "hset"
    /\ db' = [db EXCEPT !.filenames = Put(db.filenames, req[r].tab.filename,
                                          req[r].id)]
    /\ Becomes(r, [req[r] EXCEPT !.pc = "hmset"])
    /\ UNCHANGED <<pattern, settings, parserVars, disk, issued, served>>

\* cacheNewTab: HMSET tab:<id> title, artist, content, id, filename
CacheHMSet(r) ==
    /\ req[r].pc = "hmset"
    /\ LET tab == req[r].tab
       IN  db' = [db EXCEPT !.hash = Put(db.hash, req[r].id,
                        [id |-> req[r].id, title |-> tab.title,
                         artist |-> tab.artist, content |-> tab.content,
                         filename |-> tab.filename])]
    /\ Becomes(r, [req[r] EXCEPT !.pc = "saddtags"])
    /\ UNCHANGED <<pattern, settings, parserVars, disk, issued, served>>

\* cacheNewTab: SADD tab:<id>:tags <tags>; without a tag the command has no
\* member and Redis answers with an error: cacheNewTab fails and getTabs
\* goes on without adding the tab to its result
CacheSAddTags(r) ==
    /\ req[r].pc = "saddtags"
    /\ LET rq == req[r]
           id == rq.id
           members == IF id \in DOMAIN db.tags THEN db.tags[id] ELSE {}
       IN  IF Len(rq.tab.tags) = 0
           THEN /\ Becomes(r, nextToProcess(rq))
                /\ db' = db
           ELSE /\ db' = [db EXCEPT !.tags = Put(db.tags, id,
                                        members \cup Elements(rq.tab.tags))]
                /\ Becomes(r, nextToProcess([rq EXCEPT
                                    !.tabs = Append(rq.tabs, rq.tab)]))
    /\ UNCHANGED <<pattern, settings, parserVars, disk, issued, served>>

\* getTabs, after the loops: applyTransformations on every tab, then return
TransformTabs(r) ==
    /\ req[r].pc = "parse"
    /\ req[r].i > Len(req[r].toProcess)
    /\ LET rq == req[r]
       IN  IF \E j \in 1..Len(rq.tabs) : transformPanics(rq.tabs[j])
           THEN Becomes(r, ended(rq, "panic"))
           ELSE Becomes(r, ended([rq EXCEPT
                    !.tabs = [j \in 1..Len(rq.tabs) |->
                                    applyTransformations(rq.tabs[j])]], "done"))
    /\ UNCHANGED <<pattern, settings, parserVars, db, disk, issued, served>>

\* the handler has answered: the slot is free for the next request
Respond(r) ==
    /\ req[r].pc \in {"done", "error", "panic"}
    /\ Becomes(r, idleRequest)
    /\ UNCHANGED <<pattern, settings, parserVars, db, disk, issued, served>>

\* deleteTab(id) is called
StartDeleteTab(r) ==
    /\ req[r].op = "none"
    /\ served < MaxRequests
    /\ served' = served + 1
    /\ \E id \in 1..MaxCounter :
            Becomes(r, [idleRequest EXCEPT !.op = "deleteTab", !.pc = "dhget",
                                          !.id = id])
    /\ UNCHANGED <<pattern, settings, parserVars, db, disk, issued>>

\* deleteTab: HGET tab:<id> filename, an error when there is no such hash
DeleteHGet(r) ==
    /\ req[r].pc = "dhget"
    /\ Becomes(r, IF req[r].id \in DOMAIN db.hash
                   THEN [req[r] EXCEPT !.filename = db.hash[req[r].id].filename,
                                       !.pc = "ddel"]
                   ELSE ended(req[r], "error"))
    /\ UNCHANGED <<pattern, settings, parserVars, db, disk, issued, served>>

\* DeleteDel deleting the hash only
DeleteDelKeepsTags(r) ==
    /\ req[r].pc = "ddel"
    /\ db' = [db EXCEPT !.hash = Drop(db.hash, {req[r].id})]
    /\ Becomes(r, [req[r] EXCEPT !.pc = "dsrem"])
    /\ UNCHANGED <<pattern, settings, parserVars, disk, issued, served>>

\* deleteTab: DEL tab:<id> tab:<id>:tags
DeleteDel(r) ==
    /\ req[r].pc = "ddel"
    /\ db' = [db EXCEPT !.hash = Drop(db.hash, {req[r].id}),
                        !.tags = Drop(db.tags, {req[r].id})]
    /\ Becomes(r, [req[r] EXCEPT !.pc = "dsrem"])
    /\ UNCHANGED <<pattern, settings, parserVars, disk, issued, served>>

\* deleteTab: SREM tabs <id>
DeleteSRem(r) ==
    /\ req[r].pc = "dsrem"
    /\ db' = [db EXCEPT !.tabs = db.tabs \ {req[r].id}]
    /\ Becomes(r, [req[r] EXCEPT !.pc = "dhdel"])
    /\ UNCHANGED <<pattern, settings, parserVars, disk, issued, served>>

\* DeleteHDel leaving the entry of the filename in place
DeleteHDelKeepsEntry(r) ==
    /\ req[r].pc = "dhdel"
    /\ db' = db
    /\ Becomes(r, [req[r] EXCEPT !.pc = "dremove"])
    /\ UNCHANGED <<pattern, settings, parserVars, disk, issued, served>>

\* deleteTab: HDEL filenames <filename>
DeleteHDel(r) ==
    /\ req[r].pc = "dhdel"
    /\ db' = [db EXCEPT !.filenames = Drop(db.filenames, {req[r].filename})]
    /\ Becomes(r, [req[r] EXCEPT !.pc = "dremove"])
    /\ UNCHANGED <<pattern, settings, parserVars, disk, issued, served>>

\* deleteTab: os.Remove of the file, an error when it is not there
DeleteRemove(r) ==
    /\ req[r].pc = "dremove"
    /\ IF req[r].filename \in disk
       THEN /\ disk' = disk \ {req[r].filename}
            /\ Becomes(r, ended(req[r], "done"))
       ELSE /\ disk' = disk
            /\ Becomes(r, ended(req[r], "error"))
    /\ UNCHANGED <<pattern, settings, parserVars, db, issued, served>>

\* a request to /api/reset-cache arrives, with or without the password of
\* the administrator in its form: handleResetCacheAPI does not read it
StartResetCache(r) ==
    /\ req[r].op = "none"
    /\ served < MaxRequests
    /\ served' = served + 1
    /\ \E password \in Passwords :
            Becomes(r, [idleRequest EXCEPT !.op = "resetCache", !.pc = "reval",
                                          !.password = password])
    /\ UNCHANGED <<pattern, settings, parserVars, db, disk, issued>>

\* reset: EVAL del(unpack(keys('tab:*'))) deletes every tab:<id> and
\* tab:<id>:tags in one script; without such a key 'del' has no argument
\* and the script fails
ResetEval(r) ==
    /\ req[r].pc = "reval"
    /\ IF DOMAIN db.hash \cup DOMAIN db.tags = {}
       THEN /\ db' = db
            /\ Becomes(r, ended(req[r], "error"))
       ELSE /\ db' = [db EXCEPT !.hash = NoEntries, !.tags = NoEntries]
            /\ Becomes(r, [req[r] EXCEPT !.pc = "rdel"])
    /\ UNCHANGED <<pattern, settings, parserVars, disk, issued, served>>

\* reset: DEL tabs filenames
ResetDel(r) ==
    /\ req[r].pc = "rdel"
    /\ db' = [db EXCEPT !.tabs = {}, !.filenames = NoEntries]
    /\ Becomes(r, [req[r] EXCEPT !.pc = "rset"])
    /\ UNCHANGED <<pattern, settings, parserVars, disk, issued, served>>

\* reset: SET tab-counter 0
ResetSet(r) ==
    /\ req[r].pc = "rset"
    /\ db' = [db EXCEPT !.counter = 0]
    /\ issued' = {}
    /\ Becomes(r, ended(req[r], "done"))
    /\ UNCHANGED <<pattern, settings, parserVars, disk, served>>

GetTabs(r) ==
    \/ StartGetTabs(r)
    \/ FilterSMembers(r)
    \/ FilterHGet(r)
    \/ CachedHGet(r)
    \/ FetchSIsMember(r)
    \/ FetchHGetAll(r)
    \/ FetchSMembers(r)
    \/ ParseNewFile(r)
    \/ CacheIncr(r)
    \/ CacheSAdd(r)
    \/ CacheHSet(r)
    \/ CacheHMSet(r)
    \/ CacheSAddTags(r)
    \/ TransformTabs(r)

DeleteTab(r) ==
    \/ StartDeleteTab(r)
    \/ DeleteHGet(r)
    \/ DeleteDel(r)
    \/ DeleteSRem(r)
    \/ DeleteHDel(r)
    \/ DeleteRemove(r)

ResetCache(r) ==
    \/ StartResetCache(r)
    \/ ResetEval(r)
    \/ ResetDel(r)
    \/ ResetSet(r)

Serve(r) ==
    \/ GetTabs(r)
    \/ DeleteTab(r)
    \/ ResetCache(r)
    \/ Respond(r)

\* the server starts with an empty cache on the directory of tab files
InitServer ==
    /\ pattern \in ServerPatterns
    /\ stage = "tokenize"
    /\ tokens = <<>>
    /\ call = [c \in Callers |-> parseIdle(<<>>)]
    /\ db = [emptyCache EXCEPT !.filenamePattern = pattern]
    /\ settings \in {LoadSettings(db, nonCap) :
                        nonCap \in Orderings(db.nonCapitalWords)}
    /\ disk = DirFiles
    /\ req = [r \in Requests |-> idleRequest]
    /\ issued = {}
    /\ served = 0

\* requests are served concurrently, each in its own goroutine
NextServer ==
    \E r \in Requests : Serve(r)

SpecServer == InitServer /\ [][NextServer]_vars

\* the calls are made one after another: a single request at a time
NextSequential ==
    Serve("r1")

\* the directory holds any of the files; the pattern may have no "[tag]"
InitSequential ==
    /\ pattern \in ServerPatterns \cup {TitleVar}
    /\ stage = "tokenize"
    /\ tokens = <<>>
    /\ call = [c \in Callers |-> parseIdle(<<>>)]
    /\ db = [emptyCache EXCEPT !.filenamePattern = pattern]
    /\ settings \in {LoadSettings(db, nonCap) :
                        nonCap \in Orderings(db.nonCapitalWords)}
    /\ disk \in SUBSET DirFiles
    /\ req = [r \in Requests |-> idleRequest]
    /\ issued = {}
    /\ served = 0

SpecSequential == InitSequential /\ [][NextSequential]_vars

\* two calls of getTabs, the second after the first has ended, on the same
\* directory and settings
\* the second call, which is not made before the first has returned
laterRequest ==
    [idleRequest EXCEPT !.op = "later"]

InitSuccessive ==
    /\ pattern \in ServerPatterns \cup {TitleVar}
    /\ stage = "tokenize"
    /\ tokens = <<>>
    /\ call = [c \in Callers |-> parseIdle(<<>>)]
    /\ db = [emptyCache EXCEPT !.filenamePattern = pattern]
    /\ settings \in {LoadSettings(db, nonCap) :
                        nonCap \in Orderings(db.nonCapitalWords)}
    /\ disk \in SUBSET DirFiles
    /\ req = [r \in Requests |-> IF r = "r1" THEN idleRequest ELSE laterRequest]
    /\ issued = {}
    /\ served = 0

\* the first call has returned: the second can be made
FirstReturned ==
    /\ req["r1"].pc \in {"done", "error", "panic"}
    /\ req["r2"] = laterRequest
    /\ Becomes("r2", idleRequest)
    /\ UNCHANGED <<pattern, settings, parserVars, db, disk, issued, served>>

NextSuccessive ==
    \/ GetTabs("r1")
    \/ FirstReturned
    \/ GetTabs("r2")

SpecSuccessive == InitSuccessive /\ [][NextSuccessive]_vars

(***************************************************************************)
(* Passwords: handleChangePassword (src/src/server.go) and                 *)
(* validatePassword (src/unnamed/part_000).  A command to the database     *)
(* either succeeds or fails with an error.                                 *)
(***************************************************************************)
Methods == {"GET", "POST"}

\* the passwords a request can carry
EnteredPasswords == Passwords \cup {"guess"}

\* the HTTP status codes the two functions answer with
StatusOK == 200
StatusBadRequest == 400
StatusMethodNotAllowed == 405
StatusInternalServerError == 500

\* the request rq has been answered with the status
answered(rq, status) ==
    [rq EXCEPT !.pc = "done", !.status = status]

\* afterGet without the comparison of the hashes
afterGetAcceptsAny(rq, read, next) ==
    IF ~read THEN answered(rq, StatusInternalServerError)
    ELSE [rq EXCEPT !.actualHash = db.passwordHash, !.pc = next]

\* after GET password-hash: an error of the database is answered with 500,
\* a hash different from that of the entered password with 400
afterGet(rq, read, next) ==
    IF ~read THEN answered(rq, StatusInternalServerError)
    ELSE IF Hash(rq.password) # db.passwordHash
    THEN answered([rq EXCEPT !.actualHash = db.passwordHash], StatusBadRequest)
    ELSE [rq EXCEPT !.actualHash = db.passwordHash, !.pc = next]

\* a request to /api/change-password arrives; any method but POST is
\* answered with 405
StartChangePassword(r) ==
    /\ req[r].op = "none"
    /\ served < MaxRequests
    /\ served' = served + 1
    /\ \E method \in Methods, old \in EnteredPasswords, new \in EnteredPasswords :
            LET rq == [idleRequest EXCEPT !.op = "changePassword", !.pc = "cpget",
                                         !.method = method, !.password = old,
                                         !.new = new]
            IN  Becomes(r, IF method # "POST"
                           THEN answered(rq, StatusMethodNotAllowed) ELSE rq)
    /\ UNCHANGED <<pattern, settings, parserVars, db, disk, issued>>

\* handleChangePassword: GET password-hash and the comparison with the hash
\* of the old password
ChangeGet(r) ==
    /\ req[r].pc = "cpget"
    /\ \E read \in BOOLEAN : Becomes(r, afterGet(req[r], read, "cpset"))
    /\ UNCHANGED <<pattern, settings, parserVars, db, disk, issued, served>>

\* handleChangePassword: SET password-hash to the hash of the new password
ChangeSet(r) ==
    /\ req[r].pc = "cpset"
    /\ \E written \in BOOLEAN :
            IF written
            THEN /\ db' = [db EXCEPT !.passwordHash = Hash(req[r].new)]
                 /\ Becomes(r, answered(req[r], StatusOK))
            ELSE /\ db' = db
                 /\ Becomes(r, answered(req[r], StatusInternalServerError))
    /\ UNCHANGED <<pattern, settings, parserVars, disk, issued, served>>

\* validatePassword(r, passwordField) is called; any method but POST
\* returns 405
StartValidatePassword(r) ==
    /\ req[r].op = "none"
    /\ served < MaxRequests
    /\ served' = served + 1
    /\ \E method \in Methods, entered \in EnteredPasswords :
            LET rq == [idleRequest EXCEPT !.op = "validatePassword",
                                         !.pc = "vpget", !.method = method,
                                         !.password = entered]
            IN  Becomes(r, IF method # "POST"
                           THEN answered(rq, StatusMethodNotAllowed) ELSE rq)
    /\ UNCHANGED <<pattern, settings, parserVars, db, disk, issued>>

\* validatePassword: GET password-hash, the comparison, and the return of
\* (200, nil) when the hashes are equal
ValidateGet(r) ==
    /\ req[r].pc = "vpget"
    /\ \E read \in BOOLEAN :
            LET got == afterGet(req[r], read, "vpok")
            IN  Becomes(r, IF got.pc = "vpok" THEN answered(got, StatusOK)
                           ELSE got)
    /\ UNCHANGED <<pattern, settings, parserVars, db, disk, issued, served>>

Password(r) ==
    \/ StartChangePassword(r)
    \/ ChangeGet(r)
    \/ ChangeSet(r)
    \/ StartValidatePassword(r)
    \/ ValidateGet(r)
    \/ Respond(r)

NextPassword ==
    \E r \in Requests : Password(r)

SpecPassword == InitServer /\ [][NextPassword]_vars

(***************************************************************************)
(* Settings: changeSettings (src/unnamed/part_000).  The JSON text of the  *)
(* form field non-capital-words is a sequence of pieces: <<"[">>, <<"]">>, *)
(* <<",">>, <<"null">> and <<"str", w>> for the quoted string w.           *)
(***************************************************************************)
\* "a"
WordA == <<97>>

\* the texts of non-capital-words: ["a"], [], null and the malformed ["a"
JSONTexts ==
    {<< <<"[">>, <<"str", WordA>>, <<"]">> >>,
     << <<"[">>, <<"]">> >>,
     << <<"null">> >>,
     << <<"[">>, <<"str", WordA>> >>}

\* the pieces between the brackets are strings separated by commas
isElements(inner) ==
    \/ inner = <<>>
    \/ /\ Len(inner) % 2 = 1
       /\ \A i \in DOMAIN inner :
            IF i % 2 = 1 THEN inner[i][1] = "str" ELSE inner[i] = <<",">>

\* json.Unmarshal(text, &nonCapitalWords): null leaves no words, an array
\* of strings gives its strings, anything else is an error
Unmarshal(text) ==
    IF text = << <<"null">> >> THEN [ok |-> TRUE, value |-> <<>>]
    ELSE IF /\ Len(text) >= 2
            /\ text[1] = <<"[">>
            /\ text[Len(text)] = <<"]">>
            /\ isElements(SubSeq(text, 2, Len(text) - 1))
    THEN LET inner == SubSeq(text, 2, Len(text) - 1)
         IN  [ok |-> TRUE,
              value |-> [i \in 1..((Len(inner) + 1) \div 2) |-> inner[2 * i - 1][2]]]
    ELSE [ok |-> FALSE, value |-> <<>>]

\* changeSettings(r) is called: the values of the form are read and the
\* JSON text of non-capital-words is parsed; malformed JSON is an error
StartChangeSettings(r) ==
    /\ req[r].op = "none"
    /\ served < MaxRequests
    /\ served' = served + 1
    /\ \E tabDirectory \in TabDirectories,
          filenamePattern \in ServerPatterns \cup {TitleVar},
          charactersToRemove \in {CharactersToRemove, <<>>},
          text \in JSONTexts :
            LET parsed == Unmarshal(text)
                rq == [idleRequest EXCEPT
                        !.op = "changeSettings", !.pc = "csmset",
                        !.form = [tabDirectory |-> tabDirectory,
                                  filenamePattern |-> filenamePattern,
                                  nonCapitalWords |-> text,
                                  charactersToRemove |-> charactersToRemove],
                        !.nonCapitalWords = parsed.value]
            IN  Becomes(r, IF parsed.ok THEN rq ELSE [rq EXCEPT !.pc = "error"])
    /\ UNCHANGED <<pattern, settings, parserVars, db, disk, issued>>

\* MSET tab-directory, filename-pattern and characters-to-remove
SettingsMSet(r) ==
    /\ req[r].pc = "csmset"
    /\ \E written \in BOOLEAN :
            IF written
            THEN /\ db' = [db EXCEPT
                            !.tabDirectory = req[r].form.tabDirectory,
                            !.filenamePattern = req[r].form.filenamePattern,
                            !.charactersToRemove = req[r].form.charactersToRemove]
                 /\ Becomes(r, [req[r] EXCEPT !.pc = "csdel"])
            ELSE /\ db' = db
                 /\ Becomes(r, [req[r] EXCEPT !.pc = "error"])
    /\ UNCHANGED <<pattern, settings, parserVars, disk, issued, served>>

\* DEL non-capital-words
SettingsDel(r) ==
    /\ req[r].pc = "csdel"
    /\ \E deleted \in BOOLEAN :
            IF deleted
            THEN /\ db' = [db EXCEPT !.nonCapitalWords = {}]
                 /\ Becomes(r, [req[r] EXCEPT !.pc = "cssadd"])
            ELSE /\ db' = db
                 /\ Becomes(r, [req[r] EXCEPT !.pc = "error"])
    /\ UNCHANGED <<pattern, settings, parserVars, disk, issued, served>>

\* SADD non-capital-words with the new words, which is an error of Redis
\* when there are none; then s.Settings is replaced and nil is returned
SettingsSAdd(r) ==
    /\ req[r].pc = "cssadd"
    /\ \E added \in BOOLEAN :
            IF added /\ req[r].nonCapitalWords # <<>>
            THEN /\ db' = [db EXCEPT !.nonCapitalWords =
                                @ \cup Elements(req[r].nonCapitalWords)]
                 /\ pattern' = req[r].form.filenamePattern
                 /\ settings' = [PasswordHash |-> settings.PasswordHash,
                                 TabDirectory |-> req[r].form.tabDirectory,
                                 NonCapitalWords |-> req[r].nonCapitalWords,
                                 CharactersToRemove |->
                                    req[r].form.charactersToRemove]
                 /\ Becomes(r, [req[r] EXCEPT !.pc = "done"])
            ELSE /\ UNCHANGED <<pattern, settings, db>>
                 /\ Becomes(r, [req[r] EXCEPT !.pc = "error"])
    /\ UNCHANGED <<parserVars, disk, issued, served>>

ChangeSettings(r) ==
    \/ StartChangeSettings(r)
    \/ SettingsMSet(r)
    \/ SettingsDel(r)
    \/ SettingsSAdd(r)
    \/ Respond(r)

\* the calls of changeSettings come one after another
NextSettings ==
    ChangeSettings("r1")

SpecSettings == InitServer /\ [][NextSettings]_vars

(***************************************************************************)
(* Properties of parseFilename                                             *)
(***************************************************************************)
\* the call of c has ended, by returning or by a run-time panic
Ended(c) ==
    call[c].pc \in {"done", "panic"}

Returned(c) ==
    call[c].pc = "done"

NoByte(s, b) ==
    \A i \in 1..Len(s) : s[i] # b

\* C3: with the tokens of "[artist] - [title]", a filename A ++ " - " ++ T
\* where A has no space and neither A nor T has a zero byte is parsed to
\* artist = A, title = T, no tags and ok = true.
C3_ArtistTitle ==
    \A c \in Callers :
        \A k \in 0..(Len(call[c].arg) - 3) :
            LET f == call[c].arg
                A == SubSeq(f, 1, k)
                T == SubSeq(f, k + 4, Len(f))
            IN  (/\ pattern = ArtistTitlePattern
                 /\ Ended(c)
                 /\ SubSeq(f, k + 1, k + 3) = Separator
                 /\ NoByte(A, 32) /\ NoByte(A, 0) /\ NoByte(T, 0))
                    => /\ Returned(c)
                       /\ call[c].ok
                       /\ call[c].artist = A
                       /\ call[c].title = T
                       /\ call[c].tags = <<>>

\* the greatest element of a non-empty set of numbers
Max(I) ==
    CHOOSE m \in I : \A j \in I : j <= m

\* the capture of the last processed token equal to v, or the placeholder
LastCapture(c, v, placeholder) ==
    LET I == {i \in 1..Len(call[c].buffers) : tokens[i] = v}
    IN  IF I = {} THEN placeholder ELSE call[c].buffers[Max(I)]

\* the captures of the processed tokens equal to v, in order
RECURSIVE capturesFrom(_, _, _)
capturesFrom(c, v, i) ==
    IF i > Len(call[c].buffers) THEN <<>>
    ELSE (IF tokens[i] = v THEN <<call[c].buffers[i]>> ELSE <<>>)
             \o capturesFrom(c, v, i + 1)

\* the call of c is at a token of the list
AtToken(c) ==
    call[c].pc = "loop" /\ call[c].index <= Len(tokens)

\* the call of c is at a literal that is not a prefix of the remaining filename
AtMismatch(c) ==
    /\ AtToken(c)
    /\ ~isVariable(tokens[call[c].index])
    /\ ~HasPrefix(call[c].filename, tokens[call[c].index])

\* s is the end of t
IsSuffix(s, t) ==
    Len(s) <= Len(t) /\ SubSeq(t, Len(t) - Len(s) + 1, Len(t)) = s

\* C4: a literal that is not a prefix of the remaining filename ends the call
\* at that token with ok = false; title, artist and tags keep the values the
\* variables before it assigned, and no later token is processed.
\* "NoSeparator" against "[artist] - [title]" gives ok = false.
C4_MismatchAborts ==
    /\ [](\A c \in Callers :
            /\ (pattern = ArtistTitlePattern /\ call[c].arg = NoSeparator /\ Ended(c))
                    => (Returned(c) /\ ~call[c].ok)
            /\ (Returned(c) /\ ~call[c].ok)
                    => /\ call[c].index <= Len(tokens)
                       /\ ~isVariable(tokens[call[c].index])
                       /\ ~HasPrefix(call[c].filename, tokens[call[c].index])
                       /\ Len(call[c].buffers) = call[c].index - 1
                       /\ call[c].title = LastCapture(c, TitleVar, Untitled)
                       /\ call[c].artist = LastCapture(c, ArtistVar, Unnamed)
                       /\ call[c].tags = capturesFrom(c, TagVar, 1))
    /\ [][\A c \in Callers :
            /\ (AtMismatch(c) /\ call'[c] # call[c])
                    => /\ call'[c].pc = "done"
                       /\ call'[c].ok = FALSE
                       /\ call'[c].title = call[c].title
                       /\ call'[c].artist = call[c].artist
                       /\ call'[c].tags = call[c].tags
                       /\ call'[c].index = call[c].index
                       /\ call'[c].buffers = call[c].buffers
            /\ Returned(c) => call'[c] = call[c]]_vars

\* a call that failed at a literal after a variable had captured something
C4_Witness ==
    \E c \in Callers :
        /\ Returned(c) /\ ~call[c].ok
        /\ pattern = ArtistTitlePattern /\ call[c].arg = NoSeparator
        /\ call[c].artist = NoSeparator
        /\ call[c].title = Untitled
        /\ call[c].index = 3 /\ Len(tokens) = 4

\* C5: when the call returns ok = true, tags has exactly one entry for each
\* "[tag]" token, in pattern order: the captures of those tokens.  "a-b-c"
\* against "[tag]-[tag]-[tag]" gives [a, b, c].
C5_TagsAppended ==
    \A c \in Callers :
        /\ (Returned(c) /\ call[c].ok)
                => /\ Len(call[c].tags)
                        = Cardinality({i \in 1..Len(tokens) : tokens[i] = TagVar})
                   /\ call[c].tags = capturesFrom(c, TagVar, 1)
        /\ (pattern = ThreeTagsPattern /\ call[c].arg = ABC /\ Ended(c))
                => /\ Returned(c) /\ call[c].ok
                   /\ call[c].tags = <<<<97>>, <<98>>, <<99>>>>

C5_Witness ==
    \E c \in Callers :
        /\ Returned(c) /\ call[c].ok
        /\ pattern = ThreeTagsPattern /\ call[c].arg = ABC
        /\ call[c].tags = <<<<97>>, <<98>>, <<99>>>>

\* C6: with the tokens of "[artist][title]" and a non-empty filename f the
\* call returns ok = true, artist = f and title = "".
C6_AdjacentVariables ==
    \A c \in Callers :
        (pattern = AdjacentPattern /\ Len(call[c].arg) > 0 /\ Ended(c))
            => /\ Returned(c) /\ call[c].ok
               /\ call[c].artist = call[c].arg
               /\ call[c].title = <<>>

\* C7: a variable that is the last token captures all of the remaining
\* filename, whatever its bytes, and leaves the remaining filename empty.
C7_LastVariableTakesAll ==
    [][\A c \in Callers :
        (/\ AtToken(c)
         /\ call[c].index = Len(tokens)
         /\ isVariable(tokens[call[c].index])
         /\ call'[c] # call[c])
            => /\ call'[c].filename = <<>>
               /\ call'[c].buffers = Append(call[c].buffers, call[c].filename)]_vars

Recognised ==
    {TitleVar, ArtistVar, TagVar}

\* C8: a variable whose name is not title, artist or tag consumes its span of
\* the filename (up to the stop byte or the end) and leaves title, artist and
\* tags as they were.  "X" against "[unknown]" gives ok = true with the
\* placeholders and no tags.
C8_UnknownVariableIgnored ==
    /\ [](\A c \in Callers :
            (pattern = UnknownVar /\ call[c].arg = X /\ Ended(c))
                => /\ Returned(c) /\ call[c].ok
                   /\ call[c].title = Untitled
                   /\ call[c].artist = Unnamed
                   /\ call[c].tags = <<>>)
    /\ [][\A c \in Callers :
            (/\ AtToken(c)
             /\ isVariable(tokens[call[c].index])
             /\ tokens[call[c].index] \notin Recognised
             /\ call'[c] # call[c])
                => /\ call'[c].title = call[c].title
                   /\ call'[c].artist = call[c].artist
                   /\ call'[c].tags = call[c].tags
                   /\ call'[c].pc = "loop"
                        => LET before == call[c].filename
                               after == call'[c].filename
                               stop == stopByte(tokens, call[c].index)
                           IN  /\ call'[c].index = call[c].index + 1
                               /\ IsSuffix(after, before)
                               /\ after = <<>> \/ after[1] = stop
                               /\ NoByte(SubSeq(before, 1, Len(before) - Len(after)), stop)]_vars

\* "X" parsed with the tokens of "[unknown]"
C8_Witness ==
    \E c \in Callers :
        /\ pattern = UnknownVar /\ call[c].arg = X
        /\ Returned(c) /\ call[c].ok
        /\ call[c].filename = <<>>
        /\ call[c].buffers = <<<<>>, X>>
        /\ call[c].title = Untitled /\ call[c].artist = Unnamed

\* what a call that has ended hands back
Outcome(c) ==
    IF call[c].pc = "panic" THEN <<"panic">>
    ELSE <<call[c].title, call[c].artist, call[c].tags, call[c].ok>>

\* C9: parseFilename never changes the token list, and two calls with the
\* same filename on the shared list, one after the other or interleaved,
\* end the same way.
C9_PureOnSharedTokens ==
    /\ [](\A c, d \in Callers :
            (Ended(c) /\ Ended(d) /\ call[c].arg = call[d].arg)
                => Outcome(c) = Outcome(d))
    /\ [][stage = "parse" => tokens' = tokens]_vars

\* both calls ended with the same captures while the list kept its tokens
C9_Witness ==
    /\ call["c1"].arg = ABC /\ call["c2"].arg = ABC
    /\ pattern = ThreeTagsPattern
    /\ Returned("c1") /\ Returned("c2")
    /\ call["c1"].tags = <<<<97>>, <<98>>, <<99>>>>
    /\ Outcome("c1") = Outcome("c2")
    /\ tokens = tokenizePattern(pattern)

\* C10: when the call returns ok = true, title is "Untitled" without a
\* "[title]" token and the capture of the last "[title]" token otherwise,
\* also when that capture is empty; likewise artist with "Unnamed" and
\* "[artist]"; tags is empty without a "[tag]" token.
C10_Defaults ==
    \A c \in Callers :
        (Returned(c) /\ call[c].ok)
            => /\ Len(call[c].buffers) = Len(tokens)
               /\ call[c].title = LastCapture(c, TitleVar, Untitled)
               /\ call[c].artist = LastCapture(c, ArtistVar, Unnamed)
               /\ (\A i \in 1..Len(tokens) : tokens[i] # TagVar)
                        => call[c].tags = <<>>

\* a successful call whose "[title]" token captured the empty string and
\* whose pattern has no "[artist]" token
C10_Witness ==
    \E c \in Callers :
        /\ Returned(c) /\ call[c].ok
        /\ \E i \in 1..Len(tokens) : tokens[i] = TitleVar
        /\ \A i \in 1..Len(tokens) : tokens[i] # ArtistVar
        /\ call[c].title = <<>>
        /\ call[c].artist = Unnamed

\* the length of the longest prefix of s without the byte b
RECURSIVE spanWithout(_, _)
spanWithout(s, b) ==
    IF Len(s) = 0 \/ s[1] = b THEN 0 ELSE 1 + spanWithout(Tail(s), b)

\* the call of c is at a variable followed by a non-empty literal
AtStoppedVariable(c) ==
    /\ AtToken(c)
    /\ isVariable(tokens[call[c].index])
    /\ hasStop(tokens, call[c].index)
    /\ Len(tokens[call[c].index + 1]) > 0

\* C11: a variable followed by a non-empty literal captures the longest
\* prefix of the remaining filename without the first character of that
\* literal: the capture never contains that character and is empty when the
\* remaining filename starts with it.
C11_StopCharacter ==
    [][\A c \in Callers :
        (AtStoppedVariable(c) /\ call'[c] # call[c])
            => LET f == call[c].filename
                   stop == tokens[call[c].index + 1][1]
                   capture == call'[c].buffers[Len(call'[c].buffers)]
               IN  /\ Len(call'[c].buffers) = Len(call[c].buffers) + 1
                   /\ capture = SubSeq(f, 1, spanWithout(f, stop))
                   /\ NoByte(capture, stop)
                   /\ (Len(f) > 0 /\ f[1] = stop) => capture = <<>>]_vars

\* C12: after tokenizePattern, in every token '[' is only the first
\* character and ']' only the last, so each occurs at most once, and
\* isVariable is true of exactly the tokens longer than one character that
\* start with '[' and end with ']'.
C12_FlatTokens ==
    stage = "parse" =>
        \A i \in 1..Len(tokens) :
            LET token == tokens[i]
            IN  /\ \A j \in 1..Len(token) :
                        /\ token[j] = 91 => j = 1
                        /\ token[j] = 93 => j = Len(token)
                /\ Cardinality({j \in 1..Len(token) : token[j] = 91}) <= 1
                /\ Cardinality({j \in 1..Len(token) : token[j] = 93}) <= 1
                /\ isVariable(token)
                        <=> (Len(token) > 1 /\ token[1] = 91
                                /\ token[Len(token)] = 93)

\* the tokens of the nested, unbalanced pattern "[[a]" : "", "[", "[a]"
C12_Witness ==
    /\ stage = "parse"
    /\ pattern = <<91, 91, 97, 93>>
    /\ tokens = <<<<>>, <<91>>, <<91, 97, 93>>>>

\* what a call that ended in the state st hands back
ResultOf(st) ==
    IF st.pc = "panic" THEN <<"panic">>
    ELSE <<st.title, st.artist, st.tags, st.ok>>

\* the token list without its empty tokens
WithoutEmpty(ts) ==
    SelectSeq(ts, LAMBDA t : Len(t) > 0)

\* C13: the empty literal tokens of tokenizePattern do not affect matching:
\* parseFilename with the tokens of the pattern ends as parseFilename with the
\* same tokens, the empty ones removed.
C13_EmptyTokensIrrelevant ==
    \A c \in Callers :
        Ended(c) =>
            Outcome(c) = ResultOf(parseFilename(call[c].arg, WithoutEmpty(tokens)))

\* C16: parseFilename on the tokens of tokenizePattern always returns its
\* four values and never fails at run time, whatever the pattern: adjacent
\* variables, a variable followed by an unclosed '[' and unbalanced brackets
\* included.
C16_NeverFails ==
    \A c \in Callers : call[c].pc # "panic"

\* the call of c stopped at a literal token that is not a prefix of what was
\* left of the filename
StoppedAtMismatch(c) ==
    /\ call[c].index <= Len(tokens)
    /\ ~isVariable(tokens[call[c].index])
    /\ ~HasPrefix(call[c].filename, tokens[call[c].index])

\* C17: parseFilename returns ok = true exactly when every literal token was
\* a prefix of the remaining filename when it was processed; characters left
\* in the filename after the last token do not make it fail.
C17_OkIffLiteralsMatch ==
    \A c \in Callers :
        Ended(c) =>
            ((Returned(c) /\ call[c].ok) <=> ~StoppedAtMismatch(c))

\* "Foo"
Foo == <<70, 111, 111>>

\* t occurs in s at some position after the first
OccursLater(s, t) ==
    \E k \in 1..(Len(s) - Len(t)) : SubSeq(s, k + 1, k + Len(t)) = t

\* C18: matching never backtracks. A variable followed by a literal stops at
\* the first occurrence of the literal's first character and its capture is
\* never revised afterwards; when the literal is not a prefix of the filename
\* at that position the call returns ok = false, also when the literal occurs
\* later in the filename. "Foo Bar - Song" against "[artist] - [title]" is
\* rejected with artist = "Foo".
C18_NoBacktracking ==
    /\ [](\A c \in Callers :
            (pattern = ArtistTitlePattern /\ call[c].arg = FooBarSong /\ Ended(c))
                => /\ Returned(c)
                   /\ ~call[c].ok
                   /\ call[c].artist = Foo)
    /\ [][\A c \in Callers :
            /\ (AtStoppedVariable(c) /\ call'[c] # call[c])
                    => LET f == call[c].filename
                           stop == tokens[call[c].index + 1][1]
                       IN  call'[c].filename
                                = SubSeq(f, spanWithout(f, stop) + 1, Len(f))
            /\ (call[c].pc = "loop" /\ call'[c] # call[c])
                    => /\ Len(call'[c].buffers) >= Len(call[c].buffers)
                       /\ SubSeq(call'[c].buffers, 1, Len(call[c].buffers))
                                = call[c].buffers
                       /\ IsSuffix(call'[c].filename, call[c].filename)
            /\ (AtMismatch(c) /\ call'[c] # call[c])
                    => (call'[c].pc = "done" /\ call'[c].ok = FALSE)]_vars

\* "Foo Bar - Song" was rejected at " - " with artist = "Foo", although
\* " - " occurs further on in what was left of the filename
C18_Witness ==
    \E c \in Callers :
        /\ pattern = ArtistTitlePattern /\ call[c].arg = FooBarSong
        /\ Returned(c) /\ ~call[c].ok
        /\ call[c].artist = Foo
        /\ tokens[call[c].index] = Separator
        /\ OccursLater(call[c].filename, Separator)

(***************************************************************************)
(* Properties of the server                                                *)
(***************************************************************************)
\* parseFilename rejects the name of the file under the pattern of the
\* server
NonMatching(filename) ==
    LET parsed == parseFilename(TrimSuffix(filename, Ext(filename)),
                                tokenizePattern(pattern))
    IN  parsed.pc = "done" /\ ~parsed.ok

\* the filenames of the tabs of a list
FilenamesOf(tabs) ==
    {tabs[j].filename : j \in 1..Len(tabs)}

\* the request of r is at a file to process whose name does not match
AtNonMatching(r) ==
    /\ req[r].pc = "parse"
    /\ req[r].i <= Len(req[r].toProcess)
    /\ NonMatching(req[r].toProcess[req[r].i])

\* C14: getTabs skips a file of the directory whose name does not match the
\* pattern: the step writes nothing to the database, adds nothing to the
\* result and goes on with the next file instead of returning an error; the
\* file is never in the database nor in a returned list.
C14_NonMatchingSkipped ==
    /\ [](\A f \in DirFiles :
            NonMatching(f) =>
                /\ f \notin DOMAIN db.filenames
                /\ \A id \in DOMAIN db.hash : db.hash[id].filename # f
                /\ \A r \in Requests : f \notin FilenamesOf(req[r].tabs))
    /\ [][\A r \in Requests :
            (AtNonMatching(r) /\ req'[r] # req[r])
                => /\ db' = db
                   /\ req'[r].tabs = req[r].tabs
                   /\ req'[r].pc = "parse"
                   /\ req'[r].i = req[r].i + 1
                   /\ req'[r].toProcess = req[r].toProcess]_vars

\* getTabs returned without an error: the directory listing starts with
\* "a.t", which does not match, and the files after it are in the result
C14_Witness ==
    \E r \in Requests :
        /\ req[r].op = "getTabs" /\ req[r].pc = "done"
        /\ req[r].filenames = <<FileA, FileBC, FileCD>>
        /\ NonMatching(FileA)
        /\ FilenamesOf(req[r].tabs) = {FileBC, FileCD}
        /\ FileA \notin DOMAIN db.filenames

\* the request of r takes a step from the position pc
StepsFrom(r, pc) ==
    req[r].pc = pc /\ req'[r] # req[r]

\* C15: tab IDs are sequential and never reused. Every INCR of cacheNewTab
\* returns the previous value of tab-counter plus one, an ID that no tab
\* cached since the last reset had, and the tab is cached under it; nothing
\* but that INCR and the SET of the reset changes tab-counter, in any
\* interleaving of getTabs and deleteTab; and after a successful reset
\* tab-counter is 0, so that the next cached tab gets the ID 1.
C15_SequentialIDs ==
    /\ [](\A r \in Requests :
            (req[r].op = "resetCache" /\ req[r].pc = "done" /\ issued = {})
                => db.counter = 0)
    /\ [][\A r \in Requests :
            /\ StepsFrom(r, "incr")
                    => /\ req'[r].id = db.counter + 1
                       /\ db'.counter = db.counter + 1
                       /\ req'[r].id \notin issued
                       /\ req'[r].tab.ID = req'[r].id
            /\ StepsFrom(r, "sadd")
                    => db'.tabs = db.tabs \cup {req[r].id}
            /\ StepsFrom(r, "hmset")
                    => /\ req[r].id \in DOMAIN db'.hash
                       /\ db'.hash[req[r].id].id = req[r].id]_vars
    /\ [][db'.counter # db.counter
            => \E r \in Requests :
                    \/ StepsFrom(r, "incr")
                    \/ StepsFrom(r, "rset") /\ db'.counter = 0]_vars

\* the tab with the ID 1 was deleted while another getTabs was running, and
\* the tab that this getTabs caches afterwards gets the ID 3
C15_Witness ==
    \E r, d \in Requests :
        /\ req[d].op = "deleteTab" /\ req[d].pc = "done" /\ req[d].id = 1
        /\ req[r].op = "getTabs" /\ req[r].pc = "sadd" /\ req[r].id = 3
        /\ db.tabs = {2}
        /\ issued = {1, 2, 3}

\* C19: the cache reset is password-gated: a request to /api/reset-cache
\* changes the database only when it supplies the password of the
\* administrator.
C19_ResetPasswordGated ==
    [][\A r \in Requests :
        (req[r].op = "resetCache" /\ req'[r] # req[r] /\ db' # db)
            => Hash(req[r].password) = db.passwordHash]_vars

\* no call is in progress
Quiescent ==
    \A r \in Requests : req[r].pc \in {"idle", "done", "error", "panic"}

\* C20: after any sequence of getTabs, deleteTab and reset calls made one
\* after another, every ID in 'tabs' has a hash tab:<id> whose filename f has
\* filenames[f] = id, every entry of 'filenames' points to an ID in 'tabs',
\* and no two IDs in 'tabs' have the same filename.
C20_CacheConsistent ==
    Quiescent =>
        /\ \A id \in db.tabs :
                /\ id \in DOMAIN db.hash
                /\ db.hash[id].filename \in DOMAIN db.filenames
                /\ db.filenames[db.hash[id].filename] = id
        /\ \A f \in DOMAIN db.filenames : db.filenames[f] \in db.tabs
        /\ \A id1, id2 \in db.tabs :
                db.hash[id1].filename = db.hash[id2].filename => id1 = id2

\* getTabs cached two tabs and deleteTab then removed the first: one tab is
\* left in the cache, with its hash and its entry in 'filenames'
C20_Witness ==
    /\ Quiescent
    /\ req["r1"].op = "deleteTab" /\ req["r1"].pc = "done" /\ req["r1"].id = 1
    /\ db.tabs = {2}
    /\ DOMAIN db.filenames = {FileCD}
    /\ db.counter = 2

\* the list has no filename twice
NoFileTwice(tabs) ==
    \A j, k \in 1..Len(tabs) : tabs[j].filename = tabs[k].filename => j = k

\* C21: with concurrent getTabs requests a file is cached under at most one
\* ID: 'tabs' never holds two IDs whose records have the same filename, and
\* no getTabs response lists the same file twice.
C21_CachedUnderOneID ==
    /\ \A id1, id2 \in db.tabs \cap DOMAIN db.hash :
            db.hash[id1].filename = db.hash[id2].filename => id1 = id2
    /\ \A r \in Requests :
            (req[r].op = "getTabs" /\ req[r].pc = "done")
                => NoFileTwice(req[r].tabs)

\* C22: of two successive getTabs calls on the same directory and settings,
\* the second writes nothing to the database and returns the same set of
\* tabs as the first, also for files parsed to zero tags.
C22_Idempotent ==
    /\ []((/\ req["r1"].op = "getTabs" /\ req["r1"].pc = "done"
           /\ req["r2"].op = "getTabs" /\ req["r2"].pc = "done")
                => Elements(req["r2"].tabs) = Elements(req["r1"].tabs))
    /\ [][(req["r1"].pc = "done" /\ req'["r2"] # req["r2"]) => db' = db]_vars

\* the map m without the key k
Without(m, k) ==
    [x \in DOMAIN m \ {k} |-> m[x]]

\* C23: when deleteTab(id) has returned nil for a cached tab with filename
\* f, tab:<id> and tab:<id>:tags do not exist, id is not in 'tabs',
\* 'filenames' has no entry for f and the file f is gone from the
\* directory; no step of deleteTab changes tab-counter or the records, the
\* membership in 'tabs' or the entry in 'filenames' of another tab, or
\* removes another file.
C23_DeleteRemovesOnlyTheTab ==
    /\ [](\A r \in Requests :
            (req[r].op = "deleteTab" /\ req[r].pc = "done")
                => /\ req[r].id \notin DOMAIN db.hash
                   /\ req[r].id \notin DOMAIN db.tags
                   /\ req[r].id \notin db.tabs
                   /\ req[r].filename \notin DOMAIN db.filenames
                   /\ req[r].filename \notin disk)
    /\ [][\A r \in Requests :
            (req[r].op = "deleteTab" /\ req'[r] # req[r])
                => /\ db'.counter = db.counter
                   /\ Without(db'.hash, req[r].id) = Without(db.hash, req[r].id)
                   /\ Without(db'.tags, req[r].id) = Without(db.tags, req[r].id)
                   /\ db'.tabs \ {req[r].id} = db.tabs \ {req[r].id}
                   /\ \A f \in DirFiles \ {req'[r].filename} :
                        /\ f \in disk' <=> f \in disk
                        /\ f \in DOMAIN db'.filenames <=> f \in DOMAIN db.filenames
                        /\ f \in DOMAIN db.filenames
                                => db'.filenames[f] = db.filenames[f]]_vars

\* deleteTab(1) returned nil for the tab of "b-c.t": the tab and the file
\* are gone, the tab of "c-d" is still cached with its tag
C23_Witness ==
    \E r \in Requests :
        /\ req[r].op = "deleteTab" /\ req[r].pc = "done"
        /\ req[r].id = 1 /\ req[r].filename = FileBC
        /\ disk = {FileA, FileCD}
        /\ db.counter = 2
        /\ DOMAIN db.hash = {2} /\ db.hash[2].filename = FileCD
        /\ DOMAIN db.tags = {2} /\ db.tags[2] = {<<100>>}

\* C24: once deleteTab(id) has returned nil for the tab of the file f, no
\* record for f remains in the database and no getTabs that lists the
\* directory afterwards returns a tab with the filename f, also when
\* another getTabs was running during the deletion.
C24_DeletedStaysDeleted ==
    \A d \in Requests :
        (req[d].op = "deleteTab" /\ req[d].pc = "done")
            => LET f == req[d].filename
               IN  /\ f \notin DOMAIN db.filenames
                   /\ \A id \in DOMAIN db.hash : db.hash[id].filename # f
                   /\ \A r \in Requests :
                        (/\ req[r].op = "getTabs" /\ req[r].pc = "done"
                         /\ f \notin Elements(req[r].filenames))
                            => f \notin FilenamesOf(req[r].tabs)

\* C25: a cache reset, in whatever state of the cache it is called, returns
\* without an error and leaves no tab:<id> and no tab:<id>:tags key, empty
\* 'tabs' and 'filenames' and tab-counter = 0.
C25_ResetClearsCache ==
    \A r \in Requests :
        (req[r].op = "resetCache" /\ req[r].pc \in {"done", "error", "panic"})
            => /\ req[r].pc = "done"
               /\ DOMAIN db.hash = {}
               /\ DOMAIN db.tags = {}
               /\ db.tabs = {}
               /\ DOMAIN db.filenames = {}
               /\ db.counter = 0

\* the request of r is at the last command of cacheNewTab with a tab without
\* tags: the SADD has no member and fails
AtFailingSAdd(r) ==
    req[r].pc = "saddtags" /\ Len(req[r].tab.tags) = 0

\* C26: when cacheNewTab fails for a file, getTabs leaves the tab out of its
\* result and the database holds no partial record of it: its ID is not in
\* 'tabs', its filename is not in 'filenames' and there is no hash tab:<id>.
C26_NoPartialRecord ==
    [][\A r \in Requests :
        (AtFailingSAdd(r) /\ req'[r] # req[r])
            => /\ req'[r].tabs = req[r].tabs
               /\ req[r].id \notin db'.tabs
               /\ req[r].tab.filename \notin DOMAIN db'.filenames
               /\ req[r].id \notin DOMAIN db'.hash]_vars

\* the request of r has been answered
Answered(r, op) ==
    req[r].op = op /\ req[r].pc = "done"

SettingsAgree(d, p, st) ==
    /\ st.PasswordHash = d.passwordHash
    /\ st.TabDirectory = d.tabDirectory
    /\ p = d.filenamePattern
    /\ Elements(st.NonCapitalWords) = d.nonCapitalWords
    /\ st.CharactersToRemove = d.charactersToRemove

\* the call of changeSettings of r returns in this step
SettingsReturns(r, how) ==
    /\ req[r].op = "changeSettings"
    /\ req[r].pc \notin {"done", "error"}
    /\ req'[r].pc = how

\* C28: whenever changeSettings returns, the tab directory, the filename
\* pattern, the characters to remove and the non-capital words in memory
\* equal those of the database: the new values when it returns nil, the old
\* values when it returns an error; PasswordHash is not changed.
C28_SettingsConsistent ==
    [][\A r \in Requests :
        /\ SettingsReturns(r, "done")
            => /\ SettingsAgree(db', pattern', settings')
               /\ pattern' = req[r].form.filenamePattern
               /\ settings'.TabDirectory = req[r].form.tabDirectory
               /\ settings'.CharactersToRemove = req[r].form.charactersToRemove
               /\ settings'.NonCapitalWords = Unmarshal(req[r].form.nonCapitalWords).value
        /\ SettingsReturns(r, "error")
            => /\ SettingsAgree(db', pattern', settings')
               /\ pattern' = pattern /\ settings' = settings
        /\ req[r].op = "changeSettings"
            => /\ settings'.PasswordHash = settings.PasswordHash
               /\ db'.passwordHash = db.passwordHash]_vars

====
